---- MODULE Spec2Model ----
(***************************************************************************)
(* Model of the IFTMIN decoder of src/streamlit_app.py: the tokenizer      *)
(* split_segments and the IFTMINParser decoders header,                    *)
(* counts_and_amounts, parties, _shipment_groups, _extract_items_from_pci  *)
(* and shipments, run in the order the caller runs them.                   *)
(*                                                                         *)
(* A Python str is a sequence of one-character strings, so that            *)
(* splitting, prefix tests and number parsing are computed character by    *)
(* character.  None is the one-element sequence <<"None">> where a str is    *)
(* expected (no str equals it: its element is not a single character),     *)
(* NoneF where a number is expected and NoneD where a dict is expected.     *)
(***************************************************************************)
EXTENDS Integers, Sequences, FiniteSets, TLC

VARIABLES text, segments, pc, idx, data, out, parties, current_cta,
          groups, gidx, record, result, items, pending_item, raised

vars == <<text, segments, pc, idx, data, out, parties, current_cta,
          groups, gidx, record, result, items, pending_item, raised>>

(***************************************************************************)
(* The separators.                                                         *)
(***************************************************************************)
SEG_SEP == "'"
COMP_SEP == "+"
SUB_SEP == ":"

None == <<"None">>

(***************************************************************************)
(* Python str and list operations used by the decoders.                    *)
(***************************************************************************)
\* The characters str.strip() removes (those an input of the model can hold).
Whitespace == {" ", "\t", "\n", "\r"}

DigitChars == <<"0", "1", "2", "3", "4", "5", "6", "7", "8", "9">>

IsDigit(c) == \E n \in 1..10 : DigitChars[n] = c

DigitVal(c) == (CHOOSE n \in 1..10 : DigitChars[n] = c) - 1

AllDigits(s) == \A i \in 1..Len(s) : IsDigit(s[i])

\* int(s) of a string of decimal digits.
RECURSIVE DigitsToNat(_)
DigitsToNat(s) ==
    IF s = <<>> THEN 0
    ELSE 10 * DigitsToNat(SubSeq(s, 1, Len(s) - 1)) + DigitVal(s[Len(s)])

\* s[a:b] for 1-based a..b, empty when a > b.
Slice(s, a, b) == IF a > b THEN <<>> ELSE SubSeq(s, a, b)

\* The k-th smallest element of a finite set of integers.
Nth(P, k) == CHOOSE p \in P : Cardinality({q \in P : q < p}) = k - 1

\* s.split(c): the pieces between the occurrences of c, empty pieces kept;
\* "".split(c) is [""].
Split(s, c) ==
    LET P == {i \in 1..Len(s) : s[i] = c}
        n == Cardinality(P)
        lo(k) == IF k = 1 THEN 1 ELSE Nth(P, k - 1) + 1
        hi(k) == IF k = n + 1 THEN Len(s) ELSE Nth(P, k) - 1
    IN  [k \in 1..(n + 1) |-> Slice(s, lo(k), hi(k))]

\* s.split(c, 1): split at the first occurrence of c only.
Split1(s, c) ==
    LET P == {i \in 1..Len(s) : s[i] = c}
    IN  IF P = {} THEN <<s>>
        ELSE <<Slice(s, 1, Nth(P, 1) - 1), Slice(s, Nth(P, 1) + 1, Len(s))>>

\* c in s
Contains(s, c) == \E i \in 1..Len(s) : s[i] = c

\* s.strip(chars): drop leading and trailing characters of the set.
StripChars(s, cs) ==
    LET keep == {i \in 1..Len(s) : s[i] \notin cs}
    IN  IF keep = {} THEN <<>>
        ELSE Slice(s, Nth(keep, 1), Nth(keep, Cardinality(keep)))

\* s.strip()
Strip(s) == StripChars(s, Whitespace)

\* s.replace(a, b) for one-character a and b.
Replace(s, a, b) == [i \in 1..Len(s) |-> IF s[i] = a THEN b ELSE s[i]]

\* s.replace(a, "")
Remove(s, a) == SelectSeq(s, LAMBDA c : c # a)

\* s.startswith(p)
StartsWith(s, p) == Len(s) >= Len(p) /\ SubSeq(s, 1, Len(p)) = p

\* s[n:]
From(s, n) == Slice(s, n + 1, Len(s))

\* c.join(list)
RECURSIVE Join(_, _)
Join(list, c) ==
    IF list = <<>> THEN <<>>
    ELSE IF Len(list) = 1 THEN list[1]
    ELSE list[1] \o <<c>> \o Join(Tail(list), c)

\* list[k] (0-based k) if len(list) > k else dflt
ElemOr(list, k, dflt) == IF Len(list) > k THEN list[k + 1] ELSE dflt

\* list[-k]
FromEnd(list, k) == list[Len(list) - k + 1]

\* d[k] = v on a dict, and the empty dict.
EmptyDict == <<>>

Put(d, k, v) == (k :> v) @@ d

Has(d, k) == k \in DOMAIN d

\* d.get(k, dflt)
GetOr(d, k, dflt) == IF k \in DOMAIN d THEN d[k] ELSE dflt

\* None where a dict is expected (a pending item).
NoneD == [None |-> "None"]

(***************************************************************************)
(* Numbers.  A float is [k |-> "num", m |-> mantissa, e |-> scale] for     *)
(* the decimal m / 10^e with no trailing zero in m when e > 0, so that     *)
(* equal numbers are equal records ("6,0" and "6" both give m = 6, e = 0); *)
(* nan and the infinities have their own k.  NoneF is None where a float   *)
(* is expected.  Decimal strings of the lengths the model feeds are        *)
(* represented exactly by a Python float up to comparison.                 *)
(***************************************************************************)
NoneF == [k |-> "None", m |-> 0, e |-> 0]
\* A Python int n, where a field holds an int or None.
PyInt(n) == [k |-> "int", m |-> n, e |-> 0]
NaN == [k |-> "nan", m |-> 0, e |-> 0]
Inf(neg) == [k |-> "inf", m |-> IF neg THEN -1 ELSE 1, e |-> 0]

RECURSIVE Pow10(_)
Pow10(n) == IF n = 0 THEN 1 ELSE 10 * Pow10(n - 1)

RECURSIVE Normalise(_, _)
Normalise(m, e) ==
    IF e > 0 /\ m % 10 = 0 THEN Normalise(m \div 10, e - 1)
    ELSE [k |-> "num", m |-> m, e |-> e]

Lower(c) ==
    CASE c = "N" -> "n" [] c = "A" -> "a" [] c = "I" -> "i" [] c = "F" -> "f"
      [] c = "T" -> "t" [] c = "Y" -> "y" [] OTHER -> c

\* float(s): NoneF stands for the ValueError float() raises.  Accepted are
\* surrounding whitespace, a sign, digits with an optional point, and the
\* words nan, inf and infinity in any case.  (Exponents and digit-group
\* underscores are not written by any catalogue of the model.)
\* float() by stages: the stripped text, the text after its sign (w is its
\* lower-case form, parts its pieces around the point), the digits.
float_digits(ip, fp, neg) ==
    IF AllDigits(ip) /\ AllDigits(fp) /\ ip \o fp # <<>>
    THEN Normalise((IF neg THEN -1 ELSE 1) * DigitsToNat(ip \o fp), Len(fp))
    ELSE NoneF

float_parts(w, parts, neg) ==
    IF w = <<"n", "a", "n">> THEN NaN
    ELSE IF w = <<"i", "n", "f">> \/ w = <<"i", "n", "f", "i", "n", "i", "t", "y">>
         THEN Inf(neg)
    ELSE IF Len(parts) <= 2
         THEN float_digits(parts[1], IF Len(parts) = 2 THEN parts[2] ELSE <<>>, neg)
    ELSE NoneF

float_unsigned(u, neg) ==
    float_parts([i \in 1..Len(u) |-> Lower(u[i])], Split(u, "."), neg)

float_stripped(t) ==
    IF t # <<>> /\ t[1] \in {"-", "+"}
    THEN float_unsigned(Tail(t), t[1] = "-")
    ELSE float_unsigned(t, FALSE)

float(s) == float_stripped(Strip(s))

\* DECIMAL_COMMA.sub(".", val): a comma between two digits becomes a point.
DecimalComma(s) ==
    [i \in 1..Len(s) |->
        IF s[i] = "," /\ i > 1 /\ i < Len(s) /\ IsDigit(s[i - 1]) /\ IsDigit(s[i + 1])
        THEN "." ELSE s[i]]

\* _to_float(val): None for None, "" and what float() rejects.
_to_float(val) ==
    IF val = None \/ val = <<>> THEN NoneF
    ELSE float(DecimalComma(val))

\* bool(x) of a float or None: None and zero are false, nan is true.
Truthy(x) == x.k # "None" /\ ~(x.k = "num" /\ x.m = 0)

\* int(x) raises for nan (ValueError) and the infinities (OverflowError).
IntRaises(x) == x.k \in {"nan", "inf"}

\* int(x) of a finite float: truncation towards zero.
Trunc(x) ==
    IF x.m >= 0 THEN x.m \div Pow10(x.e) ELSE -((-x.m) \div Pow10(x.e))

(***************************************************************************)
(* The tokenizer.                                                          *)
(***************************************************************************)
\* A faulty variant of split_segments: empty fragments are kept.
split_segments_keeps_empty(t) ==
    LET parts == Split(Remove(Remove(Strip(t), "\n"), "\r"), SEG_SEP)
    IN  [n \in 1..Len(parts) |->
            [tag |-> Strip(Split(parts[n], COMP_SEP)[1]),
             elems |-> Tail(Split(parts[n], COMP_SEP))]]

\* split_segments(text)
split_segments(t) ==
    LET raw == Remove(Remove(Strip(t), "\n"), "\r")
        parts == SelectSeq(Split(raw, SEG_SEP), LAMBDA p : p # <<>>)
    IN  [n \in 1..Len(parts) |->
            LET chunks == Split(parts[n], COMP_SEP)
            IN  [tag |-> Strip(chunks[1]), elems |-> Tail(chunks)]]

(***************************************************************************)
(* Dates: datetime.strptime and strftime for the formats the code uses.    *)
(* strptime matches the format's regular expression at the start of the    *)
(* string, each field trying its alternatives in order and backtracking,   *)
(* then rejects unconverted trailing data and impossible dates.            *)
(***************************************************************************)
TwoDig(s, pos, lo, hi) ==
    IF pos + 1 <= Len(s) /\ IsDigit(s[pos]) /\ IsDigit(s[pos + 1])
       /\ DigitsToNat(SubSeq(s, pos, pos + 1)) \in lo..hi
    THEN DigitsToNat(SubSeq(s, pos, pos + 1)) ELSE -1

OneDig(s, pos, lo) ==
    IF pos <= Len(s) /\ IsDigit(s[pos]) /\ DigitVal(s[pos]) >= lo
    THEN DigitVal(s[pos]) ELSE -1

\* The alternatives of a format field, in the order the expression tries them.
NAlts(f) == CASE f \in {"y", "Y"} -> 1 [] f = "d" -> 3 [] OTHER -> 2

AltWidth(f, a) ==
    CASE f = "Y" -> 4 [] f = "y" -> 2 [] f = "d" /\ a = 3 -> 2
      [] a = 1 -> 2 [] OTHER -> 1

\* The value alternative a of field f reads at pos, or -1 when it does not match.
AltVal(f, a, s, pos) ==
    CASE f = "Y" -> IF pos + 3 <= Len(s) /\ AllDigits(SubSeq(s, pos, pos + 3))
                    THEN DigitsToNat(SubSeq(s, pos, pos + 3)) ELSE -1
      [] f = "y" -> TwoDig(s, pos, 0, 99)
      [] f = "m" -> IF a = 1 THEN TwoDig(s, pos, 1, 12) ELSE OneDig(s, pos, 1)
      [] f = "d" -> IF a = 1 THEN TwoDig(s, pos, 1, 31)
                    ELSE IF a = 2 THEN OneDig(s, pos, 1)
                    ELSE IF pos <= Len(s) /\ s[pos] = " " THEN OneDig(s, pos + 1, 1)
                    ELSE -1
      [] f = "H" -> IF a = 1 THEN TwoDig(s, pos, 0, 23) ELSE OneDig(s, pos, 0)
      [] f = "M" -> IF a = 1 THEN TwoDig(s, pos, 0, 59) ELSE OneDig(s, pos, 0)
      [] f = "S" -> IF a = 1 THEN TwoDig(s, pos, 0, 61) ELSE OneDig(s, pos, 0)

\* Match(s, pos, fs): the fields fs matched from pos on; vals are the values
\* read, end the position after the match.  The first alternative of the first
\* field after which the rest still matches is the one taken.
RECURSIVE Match(_, _, _)
MatchJoin(v, r) == [ok |-> TRUE, vals |-> <<v>> \o r.vals, end |-> r.end]

MatchTaking(a, s, pos, fs) ==
    MatchJoin(AltVal(Head(fs), a, s, pos),
              Match(s, pos + AltWidth(Head(fs), a), Tail(fs)))

MatchGood(s, pos, fs) ==
    {a \in 1..NAlts(Head(fs)) :
        /\ AltVal(Head(fs), a, s, pos) # -1
        /\ Match(s, pos + AltWidth(Head(fs), a), Tail(fs)).ok}

MatchFirst(good, s, pos, fs) ==
    IF good = {} THEN [ok |-> FALSE, vals |-> <<>>, end |-> pos]
    ELSE MatchTaking(Nth(good, 1), s, pos, fs)

Match(s, pos, fs) ==
    IF fs = <<>> THEN [ok |-> TRUE, vals |-> <<>>, end |-> pos]
    ELSE MatchFirst(MatchGood(s, pos, fs), s, pos, fs)

IsLeap(y) == (y % 4 = 0 /\ y % 100 # 0) \/ y % 400 = 0

DaysIn(y, m) ==
    IF m = 2 THEN (IF IsLeap(y) THEN 29 ELSE 28)
    ELSE IF m \in {4, 6, 9, 11} THEN 30 ELSE 31

\* datetime.strptime(s, fmt) for a format of the fields fs (year first, then
\* month, day and optionally hour, minute, second): ok is FALSE for ValueError.
\* The year of the values v: %y pivots at 69 (00..68 are 2000..2068).
strptime_year(fs, v) ==
    IF v = <<>> THEN 0
    ELSE IF fs[1] = "y" THEN (IF v[1] <= 68 THEN 2000 + v[1] ELSE 1900 + v[1])
    ELSE v[1]

strptime_date(r, v, year, s) ==
    IF /\ r.ok
       /\ r.end = Len(s) + 1
       /\ year >= 1
       /\ v[3] <= DaysIn(year, v[2])
       /\ (Len(v) >= 6 => v[6] <= 59)
    THEN [ok |-> TRUE, year |-> year, month |-> v[2], day |-> v[3],
          hour |-> IF Len(v) >= 4 THEN v[4] ELSE 0,
          minute |-> IF Len(v) >= 5 THEN v[5] ELSE 0,
          second |-> IF Len(v) >= 6 THEN v[6] ELSE 0]
    ELSE [ok |-> FALSE, year |-> 0, month |-> 0, day |-> 0,
          hour |-> 0, minute |-> 0, second |-> 0]

strptime_match(r, s, fs) == strptime_date(r, r.vals, strptime_year(fs, r.vals), s)

strptime(s, fs) == strptime_match(Match(s, 1, fs), s, fs)

\* str(n) of a natural number, and its two-digit zero-padded form.
RECURSIVE NatToStr(_)
NatToStr(n) ==
    IF n < 10 THEN <<DigitChars[n + 1]>>
    ELSE NatToStr(n \div 10) \o <<DigitChars[(n % 10) + 1]>>

Pad2(n) == <<DigitChars[(n \div 10) + 1], DigitChars[(n % 10) + 1]>>

\* strftime("%Y-%m-%d"), "%Y-%m-%d %H:%M" and "%Y-%m-%d %H:%M:%S" (%Y of the
\* C library is not zero-padded).
FmtDate(t) == NatToStr(t.year) \o <<"-">> \o Pad2(t.month) \o <<"-">> \o Pad2(t.day)

FmtMinute(t) == FmtDate(t) \o <<" ">> \o Pad2(t.hour) \o <<":">> \o Pad2(t.minute)

FmtSecond(t) == FmtMinute(t) \o <<":">> \o Pad2(t.second)

\* strftime of a parsed date, by the number of fields of its format; dflt when
\* strptime raised.
strftime(t, n) ==
    IF n = 3 THEN FmtDate(t) ELSE IF n = 5 THEN FmtMinute(t) ELSE FmtSecond(t)

strftime_or(t, n, dflt) == IF t.ok THEN strftime(t, n) ELSE dflt

\* The fields of the format _dtm applies to a value of length n under a format
\* code, <<>> when no branch of _dtm applies.
_dtm_fields(fmt_code, n) ==
    IF fmt_code = <<"2","0","3">> /\ n = 12 THEN <<"Y", "m", "d", "H", "M">>
    ELSE IF fmt_code = <<"2","0","4">> /\ n = 14 THEN <<"Y", "m", "d", "H", "M", "S">>
    ELSE IF fmt_code = <<"1","0","2">> /\ n = 8 THEN <<"Y", "m", "d">>
    ELSE <<>>

_dtm_with(value, fs) ==
    IF fs = <<>> THEN value ELSE strftime_or(strptime(value, fs), Len(fs), value)

\* _dtm(value, fmt_code)
_dtm(value, fmt_code) == _dtm_with(value, _dtm_fields(fmt_code, Len(value)))

(***************************************************************************)
(* IFTMINParser.header: the body of the loop for one segment.              *)
(***************************************************************************)
header_unb(d, elems) ==
    LET snd == ElemOr(elems, 1, <<>>)
        rcv == ElemOr(elems, 2, <<>>)
        dt == ElemOr(elems, 3, <<>>)
        ctrl == ElemOr(elems, 4, <<>>)
        d1 == Put(d, "syntax", ElemOr(elems, 0, <<>>))
        d2 == Put(d1, "sender", Split(snd, SUB_SEP)[1])
        d3 == Put(d2, "receiver", Split(rcv, SUB_SEP)[1])
        dtp == Split1(dt, ":")
        d4 == IF dt # <<>> /\ Contains(dt, ":")
              THEN Put(d3, "interchange_datetime",
                       strftime_or(strptime(dtp[1] \o dtp[2], <<"y", "m", "d", "H", "M">>),
                                   5, dt))
              ELSE d3
    IN  Put(d4, "interchange_control", ctrl)

header_unh(d, elems) ==
    Put(Put(d, "message_ref", ElemOr(elems, 0, <<>>)),
        "message_type", ElemOr(elems, 1, <<>>))

header_bgm(d, elems) ==
    Put(Put(Put(d, "document_type", ElemOr(elems, 0, <<>>)),
            "manifest_number", ElemOr(elems, 1, <<>>)),
        "msg_function", ElemOr(elems, 2, <<>>))

\* {"9": "message_datetime", "10": "shipment_date"}.get(code), "" for None.
header_dtm_key(code) ==
    CASE code = <<"9">> -> "message_datetime" [] code = <<"1","0">> -> "shipment_date"
      [] OTHER -> ""

header_dtm_comps(d, comps) ==
    IF Len(comps) >= 2 /\ header_dtm_key(comps[1]) # ""
    THEN Put(d, header_dtm_key(comps[1]), _dtm(comps[2], ElemOr(comps, 2, <<>>)))
    ELSE d

header_dtm(d, elems) ==
    IF elems = <<>> THEN d ELSE header_dtm_comps(d, Split(elems[1], ":"))

header_cux(d, elems) ==
    IF elems = <<>> THEN d
    ELSE LET parts == Split(elems[1], ":")
         IN  Put(d, "currency", IF Len(parts) > 1 THEN parts[2] ELSE elems[1])

header_tod(d, elems) ==
    IF Len(elems) >= 2 THEN Put(d, "terms", elems[2]) ELSE d

header_loc(d, elems) ==
    IF elems = <<>> THEN d
    ELSE IF elems[1] = <<"1","9","8","+","W","T","A","M">> THEN Put(d, "warehouse", <<"W","T","A","M">>)
    ELSE IF StartsWith(elems[1], <<"1","9","8">>)
    THEN LET tok == Split(elems[1], "+")
         IN  IF Len(tok) >= 2 THEN Put(d, "warehouse", tok[2]) ELSE d
    ELSE d

header_step(d, seg) ==
    CASE seg.tag = <<"U","N","B">> -> header_unb(d, seg.elems)
      [] seg.tag = <<"U","N","H">> -> header_unh(d, seg.elems)
      [] seg.tag = <<"B","G","M">> -> header_bgm(d, seg.elems)
      [] seg.tag = <<"D","T","M">> -> header_dtm(d, seg.elems)
      [] seg.tag = <<"C","U","X">> -> header_cux(d, seg.elems)
      [] seg.tag = <<"T","O","D">> -> header_tod(d, seg.elems)
      [] seg.tag = <<"L","O","C">> -> header_loc(d, seg.elems)
      [] OTHER -> d

(***************************************************************************)
(* IFTMINParser.counts_and_amounts: the body of the loop for one segment.  *)
(***************************************************************************)
\* (elems[0].split(":") + [None])[:2]
QualVal(e) == SubSeq(Split(e, ":") \o <<None>>, 1, 2)

\* int(x or 0) raises when the float x is nan or an infinity.
int_or_zero_raises(x) == Truthy(x) /\ IntRaises(x)

int_or_zero(x) == IF Truthy(x) THEN PyInt(Trunc(x)) ELSE PyInt(0)

\* int(_to_float(val) or 0)
IntOrZeroRaises(val) == int_or_zero_raises(_to_float(val))

IntOrZero(val) == int_or_zero(_to_float(val))

counts_raises(seg) ==
    /\ seg.tag = <<"C","N","T">>
    /\ seg.elems # <<>>
    /\ QualVal(seg.elems[1])[1] \in {<<"2">>, <<"8">>}
    /\ IntOrZeroRaises(QualVal(seg.elems[1])[2])

counts_put(o, qual, val) ==
    IF qual = <<"2">> THEN Put(o, "line_count", IntOrZero(val))
    ELSE IF qual = <<"7">> THEN Put(o, "total_gross_weight_kg", _to_float(val))
    ELSE IF qual = <<"8">> THEN Put(o, "shipment_count", IntOrZero(val))
    ELSE IF qual = <<"1","2">> THEN Put(o, "total_value_eur", _to_float(val))
    ELSE o

counts_step(o, seg) ==
    IF seg.tag = <<"C","N","T">> /\ seg.elems # <<>>
    THEN counts_put(o, QualVal(seg.elems[1])[1], QualVal(seg.elems[1])[2])
    ELSE o

(***************************************************************************)
(* IFTMINParser.parties: the body of the loop for one segment.  The party  *)
(* mapping is keyed by str (the qualifier, "CTA" or "IV").                 *)
(***************************************************************************)
\* parties.setdefault(k, {})
SetDefault(ps, k) == IF Has(ps, k) THEN ps[k] ELSE EmptyDict

nad_rec(elems) ==
    [qualifier |-> elems[1],
     party_id |-> Split(ElemOr(elems, 1, <<>>), ":")[1],
     name |-> Replace(ElemOr(elems, 3, <<>>), ":", " "),
     addr |-> Replace(ElemOr(elems, 4, <<>>), ":", " "),
     city |-> ElemOr(elems, 5, <<>>),
     state |-> ElemOr(elems, 6, <<>>),
     zip |-> ElemOr(elems, 7, <<>>),
     country |-> ElemOr(elems, 8, <<>>)]

parties_step(ps, seg) ==
    IF seg.tag = <<"N","A","D">> /\ seg.elems # <<>>
    THEN Put(ps, seg.elems[1], nad_rec(seg.elems))
    ELSE IF seg.tag = <<"C","T","A">> /\ seg.elems # <<>>
    THEN Put(ps, <<"C","T","A">>, Put(SetDefault(ps, <<"C","T","A">>), "role", seg.elems[1]))
    ELSE IF seg.tag = <<"C","O","M">> /\ seg.elems # <<>>
    THEN Put(ps, <<"C","T","A">>, Put(SetDefault(ps, <<"C","T","A">>), "tel", Split(seg.elems[1], ":")[1]))
    ELSE IF seg.tag = <<"R","F","F">> /\ seg.elems # <<>> /\ StartsWith(seg.elems[1], <<"V","A",":">>)
    THEN LET iv == SetDefault(ps, <<"I","V">>)
             refs == IF Has(iv, "refs") THEN iv["refs"] ELSE EmptyDict
         IN  Put(ps, <<"I","V">>, Put(iv, "refs", Put(refs, "VAT", From(seg.elems[1], 3))))
    ELSE ps

\* current_cta after one segment.
cta_step(cta, seg) ==
    IF seg.tag = <<"C","T","A">> /\ seg.elems # <<>> THEN seg.elems[1] ELSE cta

(***************************************************************************)
(* IFTMINParser._shipment_groups                                           *)
(***************************************************************************)
_shipment_groups(segs) ==
    LET idxs == {i \in 1..Len(segs) : segs[i].tag = <<"G","I","D">>}
        n == Cardinality(idxs)
        end(j) == IF j + 1 <= n THEN Nth(idxs, j + 1) - 1 ELSE Len(segs)
    IN  [j \in 1..n |-> SubSeq(segs, Nth(idxs, j), end(j))]

(***************************************************************************)
(* IFTMINParser._extract_items_from_pci: the body of the loop for one      *)
(* segment, as the new pending item and the new item list.                 *)
(***************************************************************************)
\* The branch conditions of the loop.
IsItemLine(seg) == seg.tag = <<"P","C","I">> /\ seg.elems # <<>>

IsProductRef(seg) ==
    seg.tag = <<"R","F","F">> /\ seg.elems # <<>> /\ StartsWith(seg.elems[1], <<"V","P",":">>)

\* A faulty variant of pci_item: the fields are read one position further right.
pci_fields_shifted(fields, n) ==
    [uom |-> IF n >= 2 THEN FromEnd(fields, 2) ELSE None,
     qty |-> IF n >= 3 THEN _to_float(FromEnd(fields, 3)) ELSE NoneF,
     unit_price_try |-> IF n >= 1 THEN _to_float(FromEnd(fields, 1)) ELSE NoneF]

pci_item_shifted(elems) ==
    pci_fields_shifted(Split(Join(elems, ":"), ":"), Len(Split(Join(elems, ":"), ":")))

\* The pending item built from the fields of an item line.
pci_fields(fields, n) ==
    [uom |-> IF n >= 3 THEN FromEnd(fields, 3) ELSE None,
     qty |-> IF n >= 4 THEN _to_float(FromEnd(fields, 4)) ELSE NoneF,
     unit_price_try |-> IF n >= 2 THEN _to_float(FromEnd(fields, 2)) ELSE NoneF]

\* The pending item an item-line segment creates.
pci_item(elems) ==
    pci_fields(Split(Join(elems, ":"), ":"), Len(Split(Join(elems, ":"), ":")))

\* A faulty variant of extract_pending: a segment that is neither an item line
\* nor a product reference clears the pending item.
extract_pending_forgets(p, seg) ==
    IF IsItemLine(seg) THEN pci_item(seg.elems) ELSE NoneD

\* A faulty variant of extract_pending: an item line met while an item is
\* pending does not replace it.
extract_pending_keeps(p, seg) ==
    IF IsItemLine(seg) THEN (IF p = NoneD THEN pci_item(seg.elems) ELSE p)
    ELSE IF IsProductRef(seg) THEN NoneD
    ELSE p

extract_pending(p, seg) ==
    IF IsItemLine(seg) THEN pci_item(seg.elems)
    ELSE IF IsProductRef(seg) THEN NoneD
    ELSE p

\* A faulty variant of extract_items: a product reference met while nothing is
\* pending emits no item.
extract_items_needs_pending(its, p, seg) ==
    IF ~IsItemLine(seg) /\ IsProductRef(seg) /\ p # NoneD
    THEN Append(its, Put(p, "asin", From(seg.elems[1], 3)))
    ELSE its

extract_items(its, p, seg) ==
    IF ~IsItemLine(seg) /\ IsProductRef(seg)
    THEN Append(its, Put(IF p = NoneD THEN EmptyDict ELSE p, "asin", From(seg.elems[1], 3)))
    ELSE its

(***************************************************************************)
(* IFTMINParser.shipments: the fresh record of a group and the body of the *)
(* inner loop for one segment.                                             *)
(***************************************************************************)
NewRecord ==
    [packages |-> NoneF, mode |-> None, destination_city |-> None,
     destination_country |-> None, route |-> None, monetary |-> EmptyDict,
     terms |-> EmptyDict, consignee |-> EmptyDict, weights |-> EmptyDict,
     dimensions_cm |-> EmptyDict, dates |-> EmptyDict, refs |-> EmptyDict,
     items |-> <<>>]

\* GID: int(float(qty)) raises when float() rejects qty or gives nan or an
\* infinity.
gid_sets(elems) == Len(elems) >= 2 /\ Contains(elems[2], ":")

\* int(x) of what float() gave: float() raised, or x is nan or an infinity.
int_float_raises(x) == x.k = "None" \/ IntRaises(x)

gid_raises(elems) ==
    /\ gid_sets(elems)
    /\ int_float_raises(float(Split(elems[2], ":")[1]))

\* MEA: "unit, val = last.split(':')" raises unless there are exactly two parts.
mea_reads(elems) ==
    elems[1] \in {<<"W","T">>, <<"W","X">>} /\ Contains(FromEnd(elems, 1), ":")

mea_raises(elems) ==
    mea_reads(elems) /\ Len(Split(FromEnd(elems, 1), ":")) # 2

\* The segment makes the loop body raise.
ship_raises(seg) ==
    /\ seg.elems # <<>>
    /\ \/ seg.tag = <<"G","I","D">> /\ gid_raises(seg.elems)
       \/ seg.tag = <<"M","E","A">> /\ mea_raises(seg.elems)

ship_loc(r, elems) ==
    LET first == elems[1]
        v == FromEnd(Split(first, "+"), 1)
    IN  IF StartsWith(first, <<"7","+">>) \/ StartsWith(first, <<"7">>)
        THEN [r EXCEPT !.destination_city = v]
        ELSE IF StartsWith(first, <<"2","5","+">>) \/ StartsWith(first, <<"2","5">>)
        THEN [r EXCEPT !.destination_country = v]
        ELSE IF StartsWith(first, <<"1","9","3","+">>) \/ StartsWith(first, <<"1","9","3">>)
        THEN [r EXCEPT !.route = v]
        ELSE r

ship_ftx(r, elems) ==
    IF elems[1] = <<"A","A","R">>
    THEN [r EXCEPT !.terms = Put(@, "delivery_terms", Strip(ElemOr(elems, 2, <<>>)))]
    ELSE IF elems[1] = <<"A","A","H">>
    THEN [r EXCEPT !.terms = Put(@, "reason_for_export", Strip(ElemOr(elems, 2, <<>>)))]
    ELSE r

ship_nad_cn(r, elems) ==
    LET name == ElemOr(elems, 2, <<>>)
        name2 == ElemOr(elems, 3, <<>>)
    IN  [r EXCEPT !.consignee =
            [name |-> StripChars(name \o (IF name2 # <<>> THEN <<" ">> \o name2 ELSE <<>>),
                                 {"+", " "}),
             street |-> Replace(ElemOr(elems, 4, <<>>), ":", " "),
             city |-> ElemOr(elems, 5, <<>>),
             state |-> ElemOr(elems, 6, <<>>),
             zip |-> ElemOr(elems, 7, <<>>),
             country |-> ElemOr(elems, 8, <<>>)]]

ship_mea(r, elems) ==
    IF mea_reads(elems)
    THEN [r EXCEPT !.weights =
            Put(@, IF elems[1] = <<"W","T">> THEN "gross_kg" ELSE "declared_kg",
                _to_float(Split(FromEnd(elems, 1), ":")[2]))]
    ELSE r

ship_dim_parts(r, parts) ==
    IF Len(parts) >= 4
    THEN [r EXCEPT !.dimensions_cm =
            [length |-> _to_float(parts[2]), width |-> _to_float(parts[3]),
             height |-> _to_float(parts[4])]]
    ELSE r

ship_dim(r, elems) ==
    ship_dim_parts(r, IF ElemOr(elems, 1, <<>>) # <<>>
                      THEN Split(ElemOr(elems, 1, <<>>), ":") ELSE <<>>)

\* {"17": "scheduled_delivery", "200": "pickup_time", "3": "invoice_date"}.get(code)
ship_dtm_key(code) ==
    CASE code = <<"1","7">> -> "scheduled_delivery" [] code = <<"2","0","0">> -> "pickup_time"
      [] code = <<"3">> -> "invoice_date" [] OTHER -> ""

ship_dtm_comps(r, c) ==
    IF Len(c) >= 2 /\ ship_dtm_key(c[1]) # ""
    THEN [r EXCEPT !.dates = Put(@, ship_dtm_key(c[1]), _dtm(c[2], ElemOr(c, 2, <<>>)))]
    ELSE r

ship_dtm(r, elems) == ship_dtm_comps(r, Split(elems[1], ":"))

ship_rff(r, elems) ==
    IF StartsWith(elems[1], <<"C","R",":">>)
    THEN [r EXCEPT !.refs = Put(@, "tracking", From(elems[1], 3))]
    ELSE IF StartsWith(elems[1], <<"T","B",":">>)
    THEN [r EXCEPT !.refs = Put(@, "order_id", From(elems[1], 3))]
    ELSE IF StartsWith(elems[1], <<"T","E",":">>)
    THEN [r EXCEPT !.refs = Put(@, "phone", From(elems[1], 3))]
    ELSE r

\* The record after a segment that does not raise.
ship_step(r, seg) ==
    IF seg.elems = <<>> THEN r
    ELSE CASE seg.tag = <<"G","I","D">> ->
                IF gid_sets(seg.elems)
                THEN [r EXCEPT !.packages =
                        PyInt(Trunc(float(Split(seg.elems[2], ":")[1])))]
                ELSE r
           [] seg.tag = <<"T","M","D">> ->
                [r EXCEPT !.mode = FromEnd(Split(seg.elems[1], ":"), 1)]
           [] seg.tag = <<"L","O","C">> -> ship_loc(r, seg.elems)
           [] seg.tag = <<"M","O","A">> ->
                [r EXCEPT !.monetary =
                    Put(@, QualVal(seg.elems[1])[1], _to_float(QualVal(seg.elems[1])[2]))]
           [] seg.tag = <<"F","T","X">> -> ship_ftx(r, seg.elems)
           [] seg.tag = <<"N","A","D">> ->
                IF seg.elems[1] = <<"C","N">> THEN ship_nad_cn(r, seg.elems) ELSE r
           [] seg.tag = <<"M","E","A">> -> ship_mea(r, seg.elems)
           [] seg.tag = <<"D","I","M">> -> ship_dim(r, seg.elems)
           [] seg.tag = <<"D","T","M">> -> ship_dtm(r, seg.elems)
           [] seg.tag = <<"R","F","F">> -> ship_rff(r, seg.elems)
           [] OTHER -> r

(***************************************************************************)
(* The program: IFTMINParser(content) tokenizes the text, then the caller  *)
(* calls header(), counts_and_amounts(), parties() and shipments() in this *)
(* order.  Every loop advances one segment per step; an exception ends the *)
(* run (nothing in the decoders or their caller catches it).               *)
(***************************************************************************)
\* IFTMINParser.__init__
Construct ==
    /\ pc = "new"
    /\ segments' = split_segments(text)
    /\ pc' = "header"
    /\ idx' = 1
    /\ data' = EmptyDict
    /\ UNCHANGED <<text, out, parties, current_cta, groups, gidx, record, result,
                   items, pending_item, raised>>

HeaderStep ==
    /\ pc = "header"
    /\ idx <= Len(segments)
    /\ data' = header_step(data, segments[idx])
    /\ idx' = idx + 1
    /\ UNCHANGED <<text, segments, pc, out, parties, current_cta, groups, gidx,
                   record, result, items, pending_item, raised>>

HeaderReturn ==
    /\ pc = "header"
    /\ idx > Len(segments)
    /\ pc' = "counts"
    /\ idx' = 1
    /\ out' = EmptyDict
    /\ UNCHANGED <<text, segments, data, parties, current_cta, groups, gidx,
                   record, result, items, pending_item, raised>>

CountsStep ==
    /\ pc = "counts"
    /\ idx <= Len(segments)
    /\ IF counts_raises(segments[idx])
       THEN /\ pc' = "raised"
            /\ raised' = "counts_and_amounts"
            /\ UNCHANGED <<out, idx>>
       ELSE /\ out' = counts_step(out, segments[idx])
            /\ idx' = idx + 1
            /\ UNCHANGED <<pc, raised>>
    /\ UNCHANGED <<text, segments, data, parties, current_cta, groups, gidx,
                   record, result, items, pending_item>>

CountsReturn ==
    /\ pc = "counts"
    /\ idx > Len(segments)
    /\ pc' = "parties"
    /\ idx' = 1
    /\ parties' = EmptyDict
    /\ current_cta' = None
    /\ UNCHANGED <<text, segments, data, out, groups, gidx, record, result,
                   items, pending_item, raised>>

PartiesStep ==
    /\ pc = "parties"
    /\ idx <= Len(segments)
    /\ parties' = parties_step(parties, segments[idx])
    /\ current_cta' = cta_step(current_cta, segments[idx])
    /\ idx' = idx + 1
    /\ UNCHANGED <<text, segments, pc, data, out, groups, gidx, record, result,
                   items, pending_item, raised>>

PartiesReturn ==
    /\ pc = "parties"
    /\ idx > Len(segments)
    /\ pc' = "shipments"
    /\ UNCHANGED <<text, segments, idx, data, out, parties, current_cta, groups,
                   gidx, record, result, items, pending_item, raised>>

\* shipments() is entered: the groups are computed once, the result is empty,
\* and the first group's record is created.
ShipmentsCall ==
    /\ pc = "shipments"
    /\ groups' = _shipment_groups(segments)
    /\ result' = <<>>
    /\ gidx' = 1
    /\ record' = NewRecord
    /\ idx' = 1
    /\ pc' = "group"
    /\ UNCHANGED <<text, segments, data, out, parties, current_cta, items,
                   pending_item, raised>>

\* One segment of the inner loop over the current group.
GroupStep ==
    /\ pc = "group"
    /\ gidx <= Len(groups)
    /\ idx <= Len(groups[gidx])
    /\ IF ship_raises(groups[gidx][idx])
       THEN /\ pc' = "raised"
            /\ raised' = "shipments"
            /\ UNCHANGED <<record, idx>>
       ELSE /\ record' = ship_step(record, groups[gidx][idx])
            /\ idx' = idx + 1
            /\ UNCHANGED <<pc, raised>>
    /\ UNCHANGED <<text, segments, data, out, parties, current_cta, groups, gidx,
                   result, items, pending_item>>

\* A faulty variant of ExtractCall: the pending slot is kept from one group to
\* the next instead of starting empty.
ExtractCall_keeps_pending ==
    /\ pc = "group"
    /\ gidx <= Len(groups)
    /\ idx > Len(groups[gidx])
    /\ pc' = "extract"
    /\ idx' = 1
    /\ items' = <<>>
    /\ UNCHANGED <<text, segments, data, out, parties, current_cta, groups, gidx,
                   record, result, raised, pending_item>>

\* The inner loop is over: _extract_items_from_pci(group) is entered.
ExtractCall ==
    /\ pc = "group"
    /\ gidx <= Len(groups)
    /\ idx > Len(groups[gidx])
    /\ pc' = "extract"
    /\ idx' = 1
    /\ items' = <<>>
    /\ pending_item' = NoneD
    /\ UNCHANGED <<text, segments, data, out, parties, current_cta, groups, gidx,
                   record, result, raised>>

\* One segment of the loop of _extract_items_from_pci.
ExtractStep ==
    /\ pc = "extract"
    /\ idx <= Len(groups[gidx])
    /\ pending_item' = extract_pending(pending_item, groups[gidx][idx])
    /\ items' = extract_items(items, pending_item, groups[gidx][idx])
    /\ idx' = idx + 1
    /\ UNCHANGED <<text, segments, pc, data, out, parties, current_cta, groups,
                   gidx, record, result, raised>>

\* _extract_items_from_pci returns: the record gets the items and is appended
\* to the result; the next group starts with a fresh record.
ExtractReturn ==
    /\ pc = "extract"
    /\ idx > Len(groups[gidx])
    /\ result' = Append(result, [record EXCEPT !.items = items])
    /\ gidx' = gidx + 1
    /\ record' = NewRecord
    /\ idx' = 1
    /\ pc' = "group"
    /\ UNCHANGED <<text, segments, data, out, parties, current_cta, groups,
                   items, pending_item, raised>>

ShipmentsReturn ==
    /\ pc = "group"
    /\ gidx > Len(groups)
    /\ pc' = "done"
    /\ UNCHANGED <<text, segments, idx, data, out, parties, current_cta, groups,
                   gidx, record, result, items, pending_item, raised>>

Next ==
    \/ Construct
    \/ HeaderStep
    \/ HeaderReturn
    \/ CountsStep
    \/ CountsReturn
    \/ PartiesStep
    \/ PartiesReturn
    \/ ShipmentsCall
    \/ GroupStep
    \/ ExtractCall
    \/ ExtractStep
    \/ ExtractReturn
    \/ ShipmentsReturn

(***************************************************************************)
(* Input texts: every sequence of at most n segments of a catalogue, each  *)
(* segment followed by the segment terminator.                             *)
(***************************************************************************)
RECURSIVE TextsUpTo(_, _)
TextsUpTo(cat, n) ==
    IF n = 0 THEN {<<>>}
    ELSE LET prev == TextsUpTo(cat, n - 1)
         IN  prev \cup {t \o c \o <<SEG_SEP>> : t \in prev, c \in cat}

\* The state before IFTMINParser(content) for a text of the set.
InitOver(texts) ==
    /\ text \in texts
    /\ segments = <<>>
    /\ pc = "new"
    /\ idx = 1
    /\ data = EmptyDict
    /\ out = EmptyDict
    /\ parties = EmptyDict
    /\ current_cta = None
    /\ groups = <<>>
    /\ gidx = 1
    /\ record = NewRecord
    /\ result = <<>>
    /\ items = <<>>
    /\ pending_item = NoneD
    /\ raised = "no"

\* Item extraction: groups of item-line and product-reference segments.
ItemCatalogue ==
    { <<"G","I","D","+","1","+","5",":","P","K">>,
      <<"P","C","I","+","Z","Z","Z","+","U","n","k","n","o","w","n",":","T","R",":","1",":","E","A",":","5","2","8",",","0","0",":","5","2","8",",","0","0">>,
      <<"P","C","I","+","2",":","K","G",":","7",",","5",":","1","5">>,
      <<"P","C","I">>,
      <<"R","F","F","+","V","P",":","B","0","B","8","T","H","8","P","4","5">>,
      <<"R","F","F","+","V","P",":","Q">>,
      <<"R","F","F","+","C","R",":","Z","R","2","2","6","3","6","1">> }

\* Largest number of segments of a text of the item catalogue.
MaxItemSegs == 4

InitItems == InitOver(TextsUpTo(ItemCatalogue, MaxItemSegs))

SpecItems == InitItems /\ [][Next]_vars

\* Largest number of segments of a text of the other catalogues.
MaxSegs == 3

\* Shipment decoding: grouping, measurement, location and unknown segments.
ShipCatalogue ==
    { <<"G","I","D","+","1","+","5",":","P","K">>,
      <<"G","I","D","+","2","+","x",":","P","K">>,
      <<"G","I","D","+","3","+","5",",","5",":","P","K">>,
      <<"G","I","D">>,
      <<"M","E","A","+","W","T","+","G","+","K","G",":",".","5","0">>,
      <<"M","E","A","+","W","X","+","B","+","K","G",":","3",":","0","0">>,
      <<"L","O","C","+","7","+","A","f","y","o","n","k","a","r","a","h","i","s","a","r">>,
      <<"L","O","C","+","2","5","+","T","u","r","k","e","y">>,
      <<"L","O","C","+","1","9","3","+","M","N","G","-","T","R","-","W","T","A","M">>,
      <<"X","Y","Z","+","1">> }

\* An excerpt of the first group of the example interchange
\* (src/streamlit_app.py, lines 359-364).
RefGroupText ==
    <<"G","I","D","+","1","+","5",":","P","K","'","T","M","D","+","9",":","M","N","G","_","E","X","P","D","_","D","O","M","'","L","O","C","+","7","+","A","f","y","o","n","k","a","r","a","h","i","s","a","r","'","L","O","C","+","2","5","+","T","u","r","k","e","y","'","L","O","C","+","1","9","3","+","M","N","G","-","T","R","-","W","T","A","M","'">>
    \o <<"M","O","A","+","Z","Z","Z",":","5","8",",","2","8","'","F","T","X","+","A","A","R","+","+","D","D","U","'","F","T","X","+","A","A","H","+","+","P","E","R","M","'">>
    \o <<"M","E","A","+","W","T","+","G","+","K","G",":",".","0","0","'","D","I","M","+","2","+","C","M","T",":","1","0",".","0",":","5","0",".","0",":","1","2",".","0","'","D","T","M","+","1","7",":","2","0","2","5","1","0","1","7",":","1","0","2","'">>
    \o <<"R","F","F","+","C","R",":","Z","R","2","2","6","3","6","1","'","R","F","F","+","T","E",":","5","4","4","5","6","5","6","6","6","6","'","R","F","F","+","T","B",":","4","0","7","-","6","5","5","4","9","0","3","-","7","3","5","7","9","6","9","'">>
    \o <<"P","C","I","+","Z","Z","Z","+","U","n","k","n","o","w","n",":","0","0","0","0",".","0","0",".","0","0","0","0",":","T","R",":","1",":","E","A",":","5","2","8",",","0","0",":","5","2","8",",","0","0","'","R","F","F","+","V","P",":","B","0","B","8","T","H","8","P","4","5","'">>

InitShip == InitOver(TextsUpTo(ShipCatalogue, MaxSegs) \cup {RefGroupText})

SpecShip == InitShip /\ [][Next]_vars

\* Header decoding: the header segment types, complete and truncated.
HeaderCatalogue ==
    { <<"U","N","B","+","U","N","O","C",":","3","+","5","4","5","0","5","3","4","0","0","0","0","0","0",":","1","4","+","M","N","G","M","F","N",":","1","4","+","2","5","1","0","1","3",":","0","0","2","3","+","2","2","4","3","3","6","9">>,
      <<"U","N","B","+","U","N","O","A",":","1","+","S","2",":","1","4","+","R","2",":","1","4">>,
      <<"U","N","H","+","1","+","I","F","T","M","I","N",":","D",":","0","1","A",":","U","N",":","E","A","N","0","0","8">>,
      <<"B","G","M","+","8","7","+","1","0","2","7","2","1","4","6","5","0","0","0","5","0","0","3","+","9">>,
      <<"B","G","M","+","8","7">>,
      <<"D","T","M","+","9",":","2","0","2","5","1","0","1","3","0","0","2","3",":","2","0","3">>,
      <<"D","T","M","+","9",":","2","0","2","5","1","3","1","0",":","1","0","2">>,
      <<"D","T","M","+","1","0",":","2","0","2","5","1","0","1","3",":","1","0","2">>,
      <<"C","U","X","+","2",":","E","U","R">>,
      <<"T","O","D","+","+","P","P">>,
      <<"L","O","C","+","1","9","8","+","W","T","A","M">>,
      <<"L","O","C","+","1","9","8","+","I","S","T","1">>,
      <<"G","I","D","+","1","+","5",":","P","K">> }

\* The example interchange up to its 198-qualified location segment
\* (src/streamlit_app.py, lines 351-353); no later segment of the example has
\* a tag or qualifier header() reads.
RefHeaderText ==
    <<"U","N","A",":","+",",","?"," ","'","U","N","B","+","U","N","O","C",":","3","+","5","4","5","0","5","3","4","0","0","0","0","0","0",":","1","4","+","M","N","G","M","F","N",":","1","4","+","2","5","1","0","1","3",":","0","0","2","3","+","2","2","4","3","3","6","9","+","+","+","+","1","+","E","A","N","C","O","M","'">>
    \o <<"U","N","H","+","1","+","I","F","T","M","I","N",":","D",":","0","1","A",":","U","N",":","E","A","N","0","0","8","'","B","G","M","+","8","7","+","1","0","2","7","2","1","4","6","5","0","0","0","5","0","0","3","+","9","'","D","T","M","+","9",":","2","0","2","5","1","0","1","3","0","0","2","3",":","2","0","3","'","D","T","M","+","1","0",":","2","0","2","5","1","0","1","3",":","1","0","2","'">>
    \o <<"T","S","R","+","1","+","5","+","4","'","C","U","X","+","2",":","E","U","R","'","F","T","X","+","D","I","N","'","C","N","T","+","2",":","6","'","C","N","T","+","7",":","6",",","0","'","C","N","T","+","8",":","2","'","C","N","T","+","1","2",":","6","3",".","3","7","'","T","O","D","+","+","P","P","'","L","O","C","+","1","9","8","+","W","T","A","M","'">>
    \o <<"G","I","D","+","1","+","5",":","P","K","'">>

InitHeader == InitOver(TextsUpTo(HeaderCatalogue, MaxSegs) \cup {RefHeaderText})

SpecHeader == InitHeader /\ [][Next]_vars

\* Party decoding: name/address, contact, communication and VAT references.
PartyCatalogue ==
    { <<"N","A","D","+","I","V","+","5","4","5","0","5","3","4","0","0","5","8","2","1",":",":","9","+","+","A","M","A","Z","O","N"," ","E","U"," ","S","A","R","L",":","S","U","C","C","U","R","S","A","L","E"," ","F","R","A","N","C","A","I","S","E","+","6","7"," ","B","O","U","L","E","V","A","R","D","+","C","L","I","C","H","Y","+","+","9","2","1","1","0","+","F","R">>,
      <<"N","A","D","+","S","F","+",":",":","9","+","+","W","T","A","M">>,
      <<"C","T","A","+","T","R">>,
      <<"C","O","M","+","0","1","6","1","0","8","1","0","0","0",":","T","E">>,
      <<"R","F","F","+","V","A",":","F","R","1","2","4","8","7","7","7","3","3","2","7">>,
      <<"R","F","F","+","V","A",":","T","R","9","9">>,
      <<"R","F","F","+","I","V",":","T","J","4","g","j","3","F","h","N">>,
      <<"G","I","D","+","1","+","5",":","P","K">> }

InitParties == InitOver(TextsUpTo(PartyCatalogue, MaxSegs))

SpecParties == InitParties /\ [][Next]_vars

\* Count decoding: every mapped qualifier, numeric, non-numeric and missing
\* values, an unmapped qualifier.
CountCatalogue ==
    { <<"C","N","T","+","2",":","6">>,
      <<"C","N","T","+","2",":","x">>,
      <<"C","N","T","+","2">>,
      <<"C","N","T","+","2",":","n","a","n">>,
      <<"C","N","T","+","7",":","6",",","0">>,
      <<"C","N","T","+","7",":","x">>,
      <<"C","N","T","+","7",":","n","a","n">>,
      <<"C","N","T","+","8",":","2">>,
      <<"C","N","T","+","1","2",":","6","3",".","3","7">>,
      <<"C","N","T","+","1","2">>,
      <<"C","N","T","+","9",":","4">>,
      <<"G","I","D","+","1","+","5",":","P","K">> }

InitCounts == InitOver(TextsUpTo(CountCatalogue, MaxSegs))

SpecCounts == InitCounts /\ [][Next]_vars

(***************************************************************************)
(* Properties of item extraction (_extract_items_from_pci), stated on the  *)
(* group being scanned and the item list built so far.                     *)
(***************************************************************************)
\* The group _extract_items_from_pci is scanning, and how many of its
\* segments it has consumed.
Grp == groups[gidx]

Scanned == idx - 1

\* The value a product-reference segment carries.
RefValue(seg) == From(seg.elems[1], 3)

\* Positions of the product-reference segments among the first n of the group.
RefPositions(n) == {j \in 1..n : IsProductRef(Grp[j])}

\* The item-line segment with elements that is pending when position j is
\* reached: the last one before j with no item line with elements and no
\* product reference after it (a set of at most one position).
PendingAt(j) ==
    {i \in 1..(j - 1) :
        /\ IsItemLine(Grp[i])
        /\ \A m \in (i + 1)..(j - 1) : ~IsItemLine(Grp[m]) /\ ~IsProductRef(Grp[m])}

\* C3 as stated: every item of the list was started by an item-line segment
\* (a segment tagged PCI) that a product-reference segment follows later in the
\* same group.
C3_EveryItemStartedByItemLine ==
    pc = "extract" =>
        \A k \in 1..Len(items) :
            \E i \in 1..Scanned, j \in 1..Scanned :
                /\ i < j
                /\ Grp[i].tag = <<"P","C","I">>
                /\ IsProductRef(Grp[j])
                /\ items[k]["asin"] = RefValue(Grp[j])

\* C3 as amended: the k-th item corresponds to the k-th product-reference
\* segment of the group and carries its reference; it carries the fields of the
\* item-line segment (PCI with elements) pending at that reference, which
\* precedes it in the group, not necessarily immediately; with no item line
\* pending the item holds the reference only.
C3_ItemsFollowReferences ==
    pc = "extract" =>
        \A k \in 1..Len(items) :
            /\ k <= Cardinality(RefPositions(Scanned))
            /\ LET j == Nth(RefPositions(Scanned), k)
               IN  IF PendingAt(j) = {}
                   THEN items[k] = [asin |-> RefValue(Grp[j])]
                   ELSE \E i \in PendingAt(j) :
                            items[k] = Put(pci_item(Grp[i].elems), "asin", RefValue(Grp[j]))

\* Witness of C3: an emitted item whose item line is separated from its
\* product reference by another segment.
C3_Witness ==
    /\ pc = "extract"
    /\ Scanned >= 3
    /\ IsItemLine(Grp[Scanned - 2])
    /\ ~IsItemLine(Grp[Scanned - 1]) /\ ~IsProductRef(Grp[Scanned - 1])
    /\ IsProductRef(Grp[Scanned])
    /\ Len(items) = 1
    /\ "qty" \in DOMAIN items[1]

\* An item of the list that carries the fields of the item line at position i.
CarriedBy(i) ==
    {k \in 1..Len(items) :
        /\ "uom" \in DOMAIN items[k]
        /\ [f \in {"uom", "qty", "unit_price_try"} |-> items[k][f]] = pci_item(Grp[i].elems)}

\* Item line i of a fully scanned group is terminated when a product reference
\* comes before the next segment of the set `lines` and the end of the group.
Terminated(i, lines) ==
    \E j \in (i + 1)..Len(Grp) :
        /\ IsProductRef(Grp[j])
        /\ \A m \in (i + 1)..(j - 1) : m \notin lines

\* No item carries the fields of an unterminated item line (unless an item
\* line with the same fields is terminated in the group).
NoItemOfUnterminated(lines) ==
    (pc = "extract" /\ Scanned = Len(Grp)) =>
        \A i \in 1..Len(Grp) :
            (IsItemLine(Grp[i]) /\ ~Terminated(i, lines)) =>
                \/ CarriedBy(i) = {}
                \/ \E h \in 1..Len(Grp) :
                      /\ IsItemLine(Grp[h])
                      /\ Terminated(h, lines)
                      /\ pci_item(Grp[h].elems) = pci_item(Grp[i].elems)

\* C4 as stated: an item-line segment with no product reference before the
\* next segment tagged PCI (with or without elements) or the end of the group
\* contributes no item.
C4_AnyPciReplacesPending ==
    NoItemOfUnterminated({m \in 1..Len(Grp) : Grp[m].tag = <<"P","C","I">>})

\* C4 as amended: an item-line segment with at least one element and no product
\* reference before the next PCI segment with at least one element or the end
\* of the group contributes no item, and right after a PCI segment with elements
\* is scanned the pending item is the one it creates, the item list unchanged
\* in length since the last product reference.
C4_UnterminatedItemLineDropped ==
    /\ NoItemOfUnterminated({m \in 1..Len(Grp) : IsItemLine(Grp[m])})
    /\ (pc = "extract" /\ Scanned >= 1 /\ IsItemLine(Grp[Scanned])) =>
            /\ pending_item = pci_item(Grp[Scanned].elems)
            /\ Len(items) = Cardinality(RefPositions(Scanned))

\* Witness of C4: a fully scanned group in which an item line with elements was
\* replaced by a later one, which was then emitted.
C4_Witness ==
    /\ pc = "extract"
    /\ Scanned = Len(Grp)
    /\ Len(items) = 1
    /\ \E i \in 1..Len(Grp) :
          /\ IsItemLine(Grp[i])
          /\ ~Terminated(i, {m \in 1..Len(Grp) : IsItemLine(Grp[m])})
          /\ CarriedBy(i) = {}
          /\ i + 2 <= Len(Grp)
          /\ IsItemLine(Grp[i + 1])
          /\ IsProductRef(Grp[i + 2])

\* The field at position (length - k) of the joined and re-split composites.
PciField(elems, k) ==
    LET fields == Split(Join(elems, ":"), ":")
    IN  IF Len(fields) >= k THEN fields[Len(fields) - k + 1] ELSE None

\* The number at position (length - k), decimal comma normalised.
PciNumber(elems, k) ==
    IF PciField(elems, k) = None THEN NoneF ELSE _to_float(PciField(elems, k))

HeaderReturned == pc \notin {"new", "header"}

CountsRaised == pc = "raised" /\ raised = "counts_and_amounts"

CountsReturned == pc \notin {"new", "header", "counts"} /\ ~CountsRaised

ShipmentsRaised == pc = "raised" /\ raised = "shipments"

PartiesReturned == pc \in {"shipments", "group", "extract", "done"} \/ ShipmentsRaised

ShipmentsReturned == pc = "done"

\* C1: no decode operation raises, whatever the text.
C1_NoDecodeRaises == pc # "raised"

\* Positions of the grouping segments of the sequence.
GidPositions == {i \in 1..Len(segments) : segments[i].tag = <<"G","I","D">>}

RECURSIVE Concat(_)
Concat(lists) == IF lists = <<>> THEN <<>> ELSE Head(lists) \o Concat(Tail(lists))

\* The slices of _shipment_groups: one per grouping segment, each starting at
\* its grouping segment and holding no other, together the sequence from the
\* first grouping segment on.
SlicesAtGroupingSegments ==
    /\ Len(groups) = Cardinality(GidPositions)
    /\ \A g \in 1..Len(groups) :
          /\ groups[g] # <<>>
          /\ groups[g][1] = segments[Nth(GidPositions, g)]
          /\ \A m \in 2..Len(groups[g]) : groups[g][m].tag # <<"G","I","D">>
    /\ Concat(groups) =
          (IF GidPositions = {} THEN <<>>
           ELSE SubSeq(segments, Nth(GidPositions, 1), Len(segments)))

\* C2: with N grouping segments _shipment_groups gives N slices bounded at the
\* grouping segments, and shipments() returns N records.
C2_OneRecordPerGroupingSegment ==
    /\ pc \in {"group", "extract", "done"} \/ ShipmentsRaised => SlicesAtGroupingSegments
    /\ ~ShipmentsRaised
    /\ ShipmentsReturned => Len(result) = Cardinality(GidPositions)

\* The last segment of group g that the tokenizer produced from LOC+q+V.
LastLoc(g, q) ==
    LET at == {i \in 1..Len(groups[g]) :
                  /\ groups[g][i].tag = <<"L","O","C">>
                  /\ Len(groups[g][i].elems) = 2
                  /\ groups[g][i].elems[1] = q}
    IN  IF at = {} THEN 0 ELSE Nth(at, Cardinality(at))

\* C6: in every returned shipment record the destination city, destination
\* country and route are the values V of the group's last LOC+7+V, LOC+25+V and
\* LOC+193+V segments.
C6_LocationValueFollowsQualifier ==
    \A g \in 1..Len(result) :
        /\ LastLoc(g, <<"7">>) # 0 =>
              result[g].destination_city = groups[g][LastLoc(g, <<"7">>)].elems[2]
        /\ LastLoc(g, <<"2","5">>) # 0 =>
              result[g].destination_country = groups[g][LastLoc(g, <<"2","5">>)].elems[2]
        /\ LastLoc(g, <<"1","9","3">>) # 0 =>
              result[g].route = groups[g][LastLoc(g, <<"1","9","3">>)].elems[2]

\* The last position of the sequence whose segment satisfies P, 0 if none.
LastWhere(P(_)) ==
    LET at == {i \in 1..Len(segments) : P(segments[i])}
    IN  IF at = {} THEN 0 ELSE Nth(at, Cardinality(at))

IsLoc198(seg) == seg.tag = <<"L","O","C">> /\ Len(seg.elems) = 2 /\ seg.elems[1] = <<"1","9","8">>

\* C7: the header's warehouse is the value W of the last LOC+198+W segment,
\* and the example interchange decodes to warehouse WTAM with its manifest
\* number and currency.
C7_WarehouseFromLoc198 ==
    HeaderReturned =>
        /\ LastWhere(IsLoc198) # 0 =>
              /\ Has(data, "warehouse")
              /\ data["warehouse"] = segments[LastWhere(IsLoc198)].elems[2]
        /\ text = RefHeaderText =>
              /\ Has(data, "warehouse") /\ data["warehouse"] = <<"W","T","A","M">>
              /\ Has(data, "manifest_number")
              /\ data["manifest_number"] = <<"1","0","2","7","2","1","4","6","5","0","0","0","5","0","0","3">>
              /\ Has(data, "currency") /\ data["currency"] = <<"E","U","R">>

\* d restricted to the keys ks.
Restrict(d, ks) == [k \in (DOMAIN d) \cap ks |-> d[k]]

\* The header fields a segment type supplies.
HeaderKeys(kind) ==
    CASE kind = "UNB" -> {"syntax", "sender", "receiver", "interchange_datetime",
                          "interchange_control"}
      [] kind = "UNH" -> {"message_ref", "message_type"}
      [] kind = "BGM" -> {"document_type", "manifest_number", "msg_function"}
      [] kind = "DTM9" -> {"message_datetime"}
      [] kind = "DTM10" -> {"shipment_date"}
      [] kind = "CUX" -> {"currency"}
      [] kind = "TOD" -> {"terms"}

IsKind(kind, seg) ==
    CASE kind = "UNB" -> seg.tag = <<"U","N","B">>
      [] kind = "UNH" -> seg.tag = <<"U","N","H">>
      [] kind = "BGM" -> seg.tag = <<"B","G","M">>
      [] kind = "DTM9" -> seg.tag = <<"D","T","M">> /\ seg.elems # <<>>
                          /\ Split(seg.elems[1], ":")[1] = <<"9">>
      [] kind = "DTM10" -> seg.tag = <<"D","T","M">> /\ seg.elems # <<>>
                           /\ Split(seg.elems[1], ":")[1] = <<"1","0">>
      [] kind = "CUX" -> seg.tag = <<"C","U","X">>
      [] kind = "TOD" -> seg.tag = <<"T","O","D">>

HeaderKinds == {"UNB", "UNH", "BGM", "DTM9", "DTM10", "CUX", "TOD"}

\* C8: for every header segment type that occurs, the header fields of that
\* type are exactly those its last occurrence determines: nothing of an
\* earlier occurrence survives.
C8_HeaderLastWins ==
    HeaderReturned =>
        \A kind \in HeaderKinds :
            LET last == LastWhere(LAMBDA seg : IsKind(kind, seg))
            IN  last # 0 =>
                    Restrict(data, HeaderKeys(kind))
                        = Restrict(header_step(EmptyDict, segments[last]), HeaderKeys(kind))

IsVatRef(seg) == seg.tag = <<"R","F","F">> /\ seg.elems # <<>> /\ StartsWith(seg.elems[1], <<"V","A",":">>)

\* C9: when the sequence has a VAT reference segment, parties() returns an IV
\* entry whose reference map holds the value of the last one under VAT.
C9_VatOnIvParty ==
    (PartiesReturned /\ LastWhere(IsVatRef) # 0) =>
        /\ Has(parties, <<"I","V">>)
        /\ Has(parties[<<"I","V">>], "refs")
        /\ Has(parties[<<"I","V">>]["refs"], "VAT")
        /\ parties[<<"I","V">>]["refs"]["VAT"] = From(segments[LastWhere(IsVatRef)].elems[1], 3)

\* A count segment with qualifier q, and the value it carries (None if missing).
IsCount(q, seg) ==
    seg.tag = <<"C","N","T">> /\ seg.elems # <<>> /\ Split(seg.elems[1], ":")[1] = q

CountValue(seg) ==
    LET parts == Split(seg.elems[1], ":")
    IN  IF Len(parts) >= 2 THEN parts[2] ELSE None

\* val is a decimal numeral: an optional sign and digits with at most one
\* decimal point or decimal comma.
IsNumeral(val) ==
    /\ val # None
    /\ LET u == IF val # <<>> /\ val[1] \in {"-", "+"} THEN Tail(val) ELSE val
           marks == {i \in 1..Len(u) : u[i] \in {".", ","}}
       IN  /\ \A i \in 1..Len(u) : IsDigit(u[i]) \/ i \in marks
           /\ Cardinality(marks) <= 1
           /\ \E i \in 1..Len(u) : IsDigit(u[i])
           /\ \A i \in marks : u[i] = "," => (i > 1 /\ i < Len(u))

CountKey(q) ==
    CASE q = <<"2">> -> "line_count" [] q = <<"7">> -> "total_gross_weight_kg"
      [] q = <<"8">> -> "shipment_count" [] q = <<"1","2">> -> "total_value_eur"

\* C10: counts_and_amounts returns, for each of the qualifiers 2, 7, 8 and 12,
\* the value of the last count segment with that qualifier: an integer for 2
\* and 8 (0 when the value is missing or not a numeral), a float for 7 and 12
\* (absent when the value is missing or not a numeral); nothing for a qualifier
\* that does not occur, and nothing else.
C10_CountsByQualifier ==
    /\ ~CountsRaised
    /\ CountsReturned =>
          /\ DOMAIN out \subseteq {"line_count", "total_gross_weight_kg",
                                   "shipment_count", "total_value_eur"}
          /\ \A q \in {<<"2">>, <<"7">>, <<"8">>, <<"1","2">>} :
                LET last == LastWhere(LAMBDA seg : IsCount(q, seg))
                    val == CountValue(segments[last])
                    got == GetOr(out, CountKey(q), NoneF)
                IN  IF last = 0 THEN ~Has(out, CountKey(q))
                    ELSE IF q \in {<<"2">>, <<"8">>}
                    THEN got = IF IsNumeral(val) THEN PyInt(Trunc(_to_float(val)))
                               ELSE PyInt(0)
                    ELSE got = IF IsNumeral(val) THEN _to_float(val) ELSE NoneF

(***************************************************************************)
(* Properties of the tokenizer (split_segments), stated against a          *)
(* character-by-character reading of the text.                             *)
(***************************************************************************)
\* Texts for the tokenizer: up to MaxPieces pieces written one after another,
\* with terminators, separators, blanks and line breaks wherever they fall.
TokenPieces ==
    { <<"a",":","b">>, <<"+">>, <<"'">>, <<" ">>, <<"\r","\n">>, <<"?">>, <<"G","I","D">> }

MaxPieces == 4

RECURSIVE PiecesUpTo(_)
PiecesUpTo(n) ==
    IF n = 0 THEN {<<>>}
    ELSE PiecesUpTo(n - 1) \cup {t \o p : t \in PiecesUpTo(n - 1), p \in TokenPieces}

InitTokens == InitOver(PiecesUpTo(MaxPieces))

SpecTokens == InitTokens /\ [][Next]_vars

\* The fragments of s between the occurrences of c, read left to right; cur is
\* the fragment being read.
RECURSIVE FragmentsOf(_, _, _)
FragmentsOf(s, cur, c) ==
    IF s = <<>> THEN <<cur>>
    ELSE IF Head(s) = c THEN <<cur>> \o FragmentsOf(Tail(s), <<>>, c)
    ELSE FragmentsOf(Tail(s), Append(cur, Head(s)), c)

\* s without its line-break characters.
NoBreaks(s) == SelectSeq(s, LAMBDA ch : ch \notin {"\n", "\r"})

\* A list of fragments without its empty trailing fragments, and without any
\* empty fragment.
RECURSIVE DropTrailingEmpty(_)
DropTrailingEmpty(list) ==
    IF list # <<>> /\ list[Len(list)] = <<>>
    THEN DropTrailingEmpty(SubSeq(list, 1, Len(list) - 1))
    ELSE list

DropEmpty(list) == SelectSeq(list, LAMBDA f : f # <<>>)

\* s without the blanks and line breaks at its two ends.
RECURSIVE Trimmed(_)
Trimmed(s) ==
    IF s # <<>> /\ Head(s) \in Whitespace THEN Trimmed(Tail(s))
    ELSE IF s # <<>> /\ s[Len(s)] \in Whitespace THEN Trimmed(SubSeq(s, 1, Len(s) - 1))
    ELSE s

\* The segments are the fragments fr, in order: tag (up to surrounding blanks)
\* the first token of the fragment, elements the remaining tokens unchanged.
SegmentsAre(fr) ==
    /\ Len(segments) = Len(fr)
    /\ \A k \in 1..Len(fr) :
          /\ segments[k].tag = Trimmed(Head(FragmentsOf(fr[k], <<>>, COMP_SEP)))
          /\ segments[k].elems = Tail(FragmentsOf(fr[k], <<>>, COMP_SEP))

\* C11 as stated: the segments are the terminator-delimited fragments of the
\* text with its line-break characters removed, only empty trailing fragments
\* discarded, the elements verbatim.  (Read in the claim's favour: the blanks
\* at the two ends of the text are taken as removed with the line breaks.)
C11_OnlyTrailingEmptyDropped ==
    pc # "new" =>
        SegmentsAre(DropTrailingEmpty(
            FragmentsOf(NoBreaks(Trimmed(text)), <<>>, SEG_SEP)))

\* C11 as amended: the segments are the non-empty terminator-delimited
\* fragments of the text with the blanks at its two ends and its line-break
\* characters removed, every empty fragment discarded wherever it stands, the
\* tag without surrounding blanks, the elements verbatim.
C11_NonEmptyFragmentsInOrder ==
    pc # "new" =>
        SegmentsAre(DropEmpty(FragmentsOf(NoBreaks(Trimmed(text)), <<>>, SEG_SEP)))

\* Witness of C11: a tokenized text of two segments, one of them with an
\* element that holds a sub-element separator.
C11_Witness ==
    /\ pc # "new"
    /\ Len(segments) = 2
    /\ \E k \in 1..2 :
          segments[k].elems # <<>> /\ Contains(segments[k].elems[1], SUB_SEP)

(***************************************************************************)
(* Properties of the location branch of shipments().                       *)
(***************************************************************************)
\* Shipment groups with location segments of exact and of longer qualifiers.
LocCatalogue ==
    { <<"G","I","D","+","1","+","5",":","P","K">>, <<"L","O","C","+","7","+","A","f","y","o","n","k","a","r","a","h","i","s","a","r">>, <<"L","O","C","+","7","0","+","A","n","k","a","r","a">>, <<"L","O","C","+","7","1","+","I","z","m","i","r">>,
      <<"L","O","C","+","2","5","0","+","T","u","r","k","e","y">>, <<"L","O","C","+","1","9","8","+","W","T","A","M">>, <<"L","O","C","+","1","9","3","0","+","M","N","G">>, <<"T","M","D","+","9",":","M","N","G","_","E","X","P","D","_","D","O","M">> }

InitLoc == InitOver(TextsUpTo(LocCatalogue, MaxSegs))

SpecLoc == InitLoc /\ [][Next]_vars

\* Group g holds a location segment whose qualifier (first element) is q.
HasLoc(g, q) ==
    \E i \in 1..Len(groups[g]) :
        /\ groups[g][i].tag = <<"L","O","C">>
        /\ groups[g][i].elems # <<>>
        /\ groups[g][i].elems[1] = q

\* C12: in every returned shipment record the destination city, destination
\* country and route are absent unless the group holds a location segment
\* whose qualifier is exactly 7, 25 or 193 respectively: a location segment
\* with any other qualifier changes none of the three.
C12_OtherQualifiersChangeNothing ==
    \A g \in 1..Len(result) :
        /\ ~HasLoc(g, <<"7">>) => result[g].destination_city = None
        /\ ~HasLoc(g, <<"2","5">>) => result[g].destination_country = None
        /\ ~HasLoc(g, <<"1","9","3">>) => result[g].route = None

(***************************************************************************)
(* Properties of the emissions of _extract_items_from_pci.                 *)
(***************************************************************************)
\* Positions of the product-reference segments of group g.
RefsOf(g) == {j \in 1..Len(groups[g]) : IsProductRef(groups[g][j])}

\* The item list its holds one item per product reference of the positions
\* refs of group g, in their order, each with the reference of its segment.
OneItemPerRef(its, g, refs) ==
    /\ Len(its) = Cardinality(refs)
    /\ \A k \in 1..Len(its) :
          /\ Has(its[k], "asin")
          /\ its[k]["asin"] = RefValue(groups[g][Nth(refs, k)])

\* The list while a group is scanned, and the list of every returned record.
ItemsMatchRefs ==
    /\ pc = "extract" => OneItemPerRef(items, gidx, RefPositions(Scanned))
    /\ \A g \in 1..Len(result) : OneItemPerRef(result[g].items, g, RefsOf(g))

\* A step of the scan: a product reference appends one item with its
\* reference, that item holding the reference only when nothing was pending,
\* and leaves the pending slot empty; any other segment appends nothing.
EmissionStep ==
    (pc = "extract" /\ pc' = "extract" /\ idx' = idx + 1 /\ idx <= Len(Grp)) =>
        IF IsProductRef(Grp[idx])
        THEN /\ Len(items') = Len(items) + 1
             /\ SubSeq(items', 1, Len(items)) = items
             /\ items'[Len(items')]["asin"] = RefValue(Grp[idx])
             /\ pending_item = NoneD =>
                    items'[Len(items')] = [asin |-> RefValue(Grp[idx])]
             /\ pending_item' = NoneD
        ELSE items' = items

\* C13: the item list has exactly one item per product-reference segment of
\* the group, in source order, each carrying the reference of the segment that
\* emitted it; a product reference seen while the pending slot is empty emits
\* an item holding only the reference; the pending slot is empty right after
\* every emission.
C13_OneItemPerProductReference == []ItemsMatchRefs /\ [][EmissionStep]_vars

\* Witness of C13: two emissions in one group, the first with nothing pending
\* (an item of the reference alone), the second with a pending item line.
C13_Witness ==
    /\ pc = "extract"
    /\ Len(items) = 2
    /\ DOMAIN items[1] = {"asin"}
    /\ Has(items[2], "qty")
    /\ items[1]["asin"] # items[2]["asin"]
    /\ pending_item = NoneD

(***************************************************************************)
(* Properties of the pending slot across groups.                           *)
(***************************************************************************)
\* The items of a slice scanned on its own, from slot p and list its.
RECURSIVE ScanSlice(_, _, _)
ScanSlice(slice, p, its) ==
    IF slice = <<>> THEN its
    ELSE ScanSlice(Tail(slice), extract_pending(p, Head(slice)),
                   extract_items(its, p, Head(slice)))

\* The first product reference of group g has no item line before it in the
\* group.
FirstRefUnpaired(g) ==
    /\ RefsOf(g) # {}
    /\ \A i \in 1..(Nth(RefsOf(g), 1) - 1) : ~IsItemLine(groups[g][i])

\* The number of items of a list of records.
RECURSIVE TotalItems(_)
TotalItems(recs) ==
    IF recs = <<>> THEN 0 ELSE Len(Head(recs).items) + TotalItems(Tail(recs))

\* Positions of the product-reference segments that follow a grouping segment.
RefsInGroups ==
    {j \in 1..Len(segments) :
        IsProductRef(segments[j]) /\ \E i \in GidPositions : i < j}

\* C14: the pending slot and the item list start empty for each group; the
\* items of every returned record are those of its own slice scanned from an
\* empty slot, whatever precedes the slice (an earlier group ending on a
\* pending item line, or segments before the first grouping segment); a first
\* product reference with no item line before it in its group yields an item
\* of the reference alone; the records together hold one item per product
\* reference that follows a grouping segment, none for those before the first.
C14_PendingSlotPerGroup ==
    /\ (pc = "extract" /\ Scanned = 0) => (pending_item = NoneD /\ items = <<>>)
    /\ \A g \in 1..Len(result) :
          /\ result[g].items = ScanSlice(groups[g], NoneD, <<>>)
          /\ FirstRefUnpaired(g) =>
                result[g].items[1] = [asin |-> RefValue(groups[g][Nth(RefsOf(g), 1)])]
    /\ ShipmentsReturned => TotalItems(result) = Cardinality(RefsInGroups)

\* Witness of C14: two returned records, the first group ending on a pending
\* item line, the second starting with a product reference right after its
\* grouping segment and giving an item of the reference alone.
C14_Witness ==
    /\ Len(result) = 2
    /\ IsItemLine(groups[1][Len(groups[1])])
    /\ result[1].items = <<>>
    /\ Len(groups[2]) >= 2
    /\ IsProductRef(groups[2][2])
    /\ result[2].items = <<[asin |-> RefValue(groups[2][2])]>>

====
